---- MODULE Spec2Model ----
(***************************************************************************)
(* Model of the gRPC plugin server bootstrap, grpc_server.go: the          *)
(* GRPCServer type with its three methods Init, Config and Serve, the      *)
(* accept-loop goroutines that Serve starts, and the external controller   *)
(* that closes DoneCh.  Strings are sequences of byte values.              *)
(***************************************************************************)
EXTENDS Integers, Sequences, FiniteSets, TLC

VARIABLES
  Plugins,   \* GRPCServer.Plugins: plugin name -> plugin handle
  TLS,       \* GRPCServer.TLS is non-nil
  DoneCh,    \* GRPCServer.DoneCh: "open" or "closed"
  config,    \* GRPCServer.config
  server,    \* GRPCServer.server: Nil or the index of a server in "servers"
  servers,   \* the *grpc.Server objects the factory has returned, in order
  pc,        \* position of the calling goroutine: "idle", "init", "serve"
  iter,      \* keys the range loop of the current or last Init has yielded
  inits,     \* the errors the finished Init calls returned, in order
  outs,      \* what the latest Config calls returned, two of them at most
  loops,     \* the goroutines started by "go s.server.Serve(lis)"
  crashed    \* the process has died of a panic

vars == <<Plugins, TLS, DoneCh, config, server, servers, pc, iter, inits,
          outs, loops, crashed>>

----------------------------------------------------------------------------
(* Bounds of the model.                                                    *)

MaxPlugins == 2      \* entries in the Plugins map
MaxAddrLen == 1      \* bytes in StdoutAddr and in StderrAddr
MaxCalls == 3        \* Init and Serve calls made on one instance

Nil == 0

\* Names the map may use as keys; the first MaxPlugins of them are used.
NamePool == <<"echo", "bad", "kv", "counter">>

Names == {NamePool[i] : i \in 1..(IF MaxPlugins < Len(NamePool) THEN MaxPlugins ELSE Len(NamePool))}

\* A plugin handle either does not implement GRPCPlugin, or implements it
\* with a GRPCServer method that returns nil or an error.
Handles == {"not_grpc", "grpc_ok", "grpc_err"}

PluginMaps == UNION {[D -> Handles] : D \in SUBSET Names}

\* Bytes an address may hold: 'a', '"' and 0xFF (never valid UTF-8).
AddrBytes == {97, 34, 255}

RECURSIVE StringsUpTo(_)
StringsUpTo(n) ==
  IF n = 0 THEN {<<>>}
  ELSE LET shorter == StringsUpTo(n - 1)
       IN  shorter \cup {Append(s, b) : s \in shorter, b \in AddrBytes}

Addrs == StringsUpTo(MaxAddrLen)

----------------------------------------------------------------------------
(* Config: the record written by json.NewEncoder(&buf).Encode(s.config).   *)

\* The lower-case hexadecimal digit of a value 0..15, as encoding/json
\* writes it.
HexDigit(v) == IF v < 10 THEN 48 + v ELSE 87 + v

\* encoding/json's escaping of one byte of a string (HTML escaping is on
\* for an Encoder by default); 0xFF is invalid UTF-8 and becomes U+FFFD.
EscapeByte(b) ==
  CASE b = 34 -> <<92, 34>>
    [] b = 92 -> <<92, 92>>
    [] b = 10 -> <<92, 110>>
    [] b = 13 -> <<92, 114>>
    [] b = 9  -> <<92, 116>>
    [] b = 255 -> <<92, 117, 102, 102, 102, 100>>
    [] b < 32 \/ b \in {60, 62, 38} ->
         <<92, 117, 48, 48, HexDigit(b \div 16), HexDigit(b % 16)>>
    [] OTHER -> <<b>>

RECURSIVE EscapeString(_)
EscapeString(s) ==
  IF s = <<>> THEN <<>> ELSE EscapeByte(Head(s)) \o EscapeString(Tail(s))

\* A Go string as a JSON string literal.
QuoteString(s) == <<34>> \o EscapeString(s) \o <<34>>

\* {"stdout_addr":
KeyStdout == <<123, 34, 115, 116, 100, 111, 117, 116, 95, 97, 100, 100, 114, 34, 58>>

\* ,"stderr_addr":
KeyStderr == <<44, 34, 115, 116, 100, 101, 114, 114, 95, 97, 100, 100, 114, 34, 58>>

\* Encoder.Encode of a GRPCServerConfig: the object, then a newline.
EncodeJSON(cfg) ==
  KeyStdout \o QuoteString(cfg.StdoutAddr) \o
  KeyStderr \o QuoteString(cfg.StderrAddr) \o <<125>> \o <<10>>

\* GRPCServer.Config: the buffer holds the JSON encoding and nothing else
\* is applied to it before buf.String().
Config(cfg) == EncodeJSON(cfg)

----------------------------------------------------------------------------
(* Init.                                                                   *)

\* The option list without the credentials option.
ServerOptionsPlain(tls) == <<>>

\* The option list Init builds: grpc.Creds(credentials.NewTLS(s.TLS)) when
\* TLS is set, and no option otherwise.
ServerOptions(tls) == IF tls THEN <<"Creds">> ELSE <<>>

\* DefaultGRPCServer: a new server built from the options, nothing
\* registered on it yet.  "calls" lists the p.GRPCServer(s.server) calls
\* made on it, each with the plugin name and whether it returned nil.
DefaultGRPCServer(opts) == [opts |-> opts, calls |-> <<>>]

\* The error a failing plugin's GRPCServer method returns.
AttachError(k) == [plugin |-> k, msg |-> "attach failed"]

\* The nil error.
NoError == [fmt |-> "", args |-> <<>>]

\* fmt.Errorf("%q is not a GRPC-compatibile plugin", k)
NotGRPCError(k) == [fmt |-> "%q is not a GRPC-compatibile plugin", args |-> <<k>>]

\* fmt.Errorf("error registring %q: %s", k, err)
RegisterError(k, err) == [fmt |-> "error registring %q: %s", args |-> <<k, err>>]

\* Init building the server only when s.server is still nil, and keeping the
\* one it holds otherwise.
InitCallReuse ==
  /\ ~crashed
  /\ pc = "idle"
  /\ Len(servers) + Len(loops) < MaxCalls
  /\ IF server = Nil
     THEN /\ servers' = Append(servers, DefaultGRPCServer(ServerOptions(TLS)))
          /\ server' = Len(servers) + 1
     ELSE UNCHANGED <<servers, server>>
  /\ iter' = <<>>
  /\ pc' = "init"
  /\ UNCHANGED <<Plugins, TLS, DoneCh, config, inits, outs, loops, crashed>>

\* Init up to the range loop: the option list, the factory call and the
\* assignment to s.server.
InitCall ==
  /\ ~crashed
  /\ pc = "idle"
  /\ Len(servers) + Len(loops) < MaxCalls
  /\ servers' = Append(servers, DefaultGRPCServer(ServerOptions(TLS)))
  /\ server' = Len(servers) + 1
  /\ iter' = <<>>
  /\ pc' = "init"
  /\ UNCHANGED <<Plugins, TLS, DoneCh, config, inits, outs, loops, crashed>>

\* The keys the range loop has yet to yield.
Remaining == DOMAIN Plugins \ {iter[i] : i \in 1..Len(iter)}

\* The range loop going on to the next key where the code returns: a handle
\* that is no GRPCPlugin is skipped.
InitRegisterBestEffort ==
  /\ ~crashed
  /\ pc = "init"
  /\ \E k \in Remaining :
       /\ iter' = Append(iter, k)
       /\ IF Plugins[k] = "not_grpc"
          THEN UNCHANGED <<servers, inits, pc>>
          ELSE /\ servers' = [servers EXCEPT ![server].calls =
                    Append(@, [name |-> k, ok |-> Plugins[k] = "grpc_ok"])]
               /\ IF Plugins[k] = "grpc_err"
                  THEN /\ inits' = Append(inits, RegisterError(k, AttachError(k)))
                       /\ pc' = "idle"
                  ELSE UNCHANGED <<inits, pc>>
  /\ UNCHANGED <<Plugins, TLS, DoneCh, config, server, outs, loops, crashed>>

\* The range loop dropping the error of p.GRPCServer(s.server).
InitRegisterSwallow ==
  /\ ~crashed
  /\ pc = "init"
  /\ \E k \in Remaining :
       /\ iter' = Append(iter, k)
       /\ IF Plugins[k] = "not_grpc"
          THEN /\ inits' = Append(inits, NotGRPCError(k))
               /\ pc' = "idle"
               /\ UNCHANGED servers
          ELSE /\ servers' = [servers EXCEPT ![server].calls =
                    Append(@, [name |-> k, ok |-> Plugins[k] = "grpc_ok"])]
               /\ UNCHANGED <<inits, pc>>
  /\ UNCHANGED <<Plugins, TLS, DoneCh, config, server, outs, loops, crashed>>

\* The range loop clearing s.server before it returns an error.
InitRegisterClear ==
  /\ ~crashed
  /\ pc = "init"
  /\ \E k \in Remaining :
       /\ iter' = Append(iter, k)
       /\ IF Plugins[k] = "not_grpc"
          THEN /\ inits' = Append(inits, NotGRPCError(k))
               /\ pc' = "idle"
               /\ server' = Nil
               /\ UNCHANGED servers
          ELSE /\ servers' = [servers EXCEPT ![server].calls =
                    Append(@, [name |-> k, ok |-> Plugins[k] = "grpc_ok"])]
               /\ IF Plugins[k] = "grpc_err"
                  THEN /\ inits' = Append(inits, RegisterError(k, AttachError(k)))
                       /\ pc' = "idle"
                       /\ server' = Nil
                  ELSE UNCHANGED <<inits, pc, server>>
  /\ UNCHANGED <<Plugins, TLS, DoneCh, config, outs, loops, crashed>>

\* The range loop undoing the registrations made so far before it returns
\* an error.
InitRegisterRollback ==
  /\ ~crashed
  /\ pc = "init"
  /\ \E k \in Remaining :
       /\ iter' = Append(iter, k)
       /\ IF Plugins[k] = "grpc_ok"
          THEN /\ servers' = [servers EXCEPT ![server].calls =
                    Append(@, [name |-> k, ok |-> TRUE])]
               /\ UNCHANGED <<inits, pc>>
          ELSE /\ servers' = [servers EXCEPT ![server].calls = <<>>]
               /\ inits' = Append(inits,
                    IF Plugins[k] = "not_grpc" THEN NotGRPCError(k)
                    ELSE RegisterError(k, AttachError(k)))
               /\ pc' = "idle"
  /\ UNCHANGED <<Plugins, TLS, DoneCh, config, server, outs, loops, crashed>>

\* One iteration of the range loop over s.Plugins, on a key the loop has not
\* yielded yet (Go fixes no iteration order for a map).
InitRegister ==
  /\ ~crashed
  /\ pc = "init"
  /\ \E k \in Remaining :
       /\ iter' = Append(iter, k)
       /\ IF Plugins[k] = "not_grpc"
          THEN /\ inits' = Append(inits, NotGRPCError(k))
               /\ pc' = "idle"
               /\ UNCHANGED servers
          ELSE /\ servers' = [servers EXCEPT ![server].calls =
                    Append(@, [name |-> k, ok |-> Plugins[k] = "grpc_ok"])]
               /\ IF Plugins[k] = "grpc_err"
                  THEN /\ inits' = Append(inits, RegisterError(k, AttachError(k)))
                       /\ pc' = "idle"
                  ELSE UNCHANGED <<inits, pc>>
  /\ UNCHANGED <<Plugins, TLS, DoneCh, config, server, outs, loops, crashed>>

\* "return nil" inside the loop body: Init returns after its first iteration.
InitReturnEarly ==
  /\ ~crashed
  /\ pc = "init"
  /\ Remaining = {} \/ iter # <<>>
  /\ inits' = Append(inits, NoError)
  /\ pc' = "idle"
  /\ UNCHANGED <<Plugins, TLS, DoneCh, config, server, servers, iter, outs,
                 loops, crashed>>

\* The range loop is over: return nil.
InitReturn ==
  /\ ~crashed
  /\ pc = "init"
  /\ Remaining = {}
  /\ inits' = Append(inits, NoError)
  /\ pc' = "idle"
  /\ UNCHANGED <<Plugins, TLS, DoneCh, config, server, servers, iter, outs,
                 loops, crashed>>

----------------------------------------------------------------------------
(* Config.                                                                 *)

\* A Config call with the buffer kept from one call to the next instead of
\* local to the call: the output is appended to that of the call before.
ConfigCallKeptBuffer ==
  /\ ~crashed
  /\ outs' = IF outs = <<>> THEN <<Config(config)>>
              ELSE <<outs[Len(outs)], outs[Len(outs)] \o Config(config)>>
  /\ UNCHANGED <<Plugins, TLS, DoneCh, config, server, servers, pc, iter,
                 inits, loops, crashed>>

\* A Config call, made at any moment of the instance's life: the encoding of
\* s.config is returned, no field is written.
ConfigCall ==
  /\ ~crashed
  /\ outs' = IF outs = <<>> THEN <<Config(config)>>
              ELSE <<outs[Len(outs)], Config(config)>>
  /\ UNCHANGED <<Plugins, TLS, DoneCh, config, server, servers, pc, iter,
                 inits, loops, crashed>>

----------------------------------------------------------------------------
(* Serve, the accept loops it starts, and the controller of DoneCh.        *)

\* Serve with the go statement written twice: two goroutines per call.
ServeCallTwice ==
  /\ ~crashed
  /\ pc = "idle"
  /\ Len(servers) + Len(loops) < MaxCalls
  /\ loops' = loops \o
       <<[server |-> server, state |-> "running", accepted |-> FALSE,
          inits |-> inits],
         [server |-> server, state |-> "running", accepted |-> FALSE,
          inits |-> inits]>>
  /\ pc' = "serve"
  /\ UNCHANGED <<Plugins, TLS, DoneCh, config, server, servers, iter, inits,
                 outs, crashed>>

\* Serve up to the receive: "go s.server.Serve(lis)" starts a goroutine on
\* whatever s.server holds, and the caller goes on to wait on DoneCh.
\* "inits" notes the Init calls that had returned by then.
ServeCall ==
  /\ ~crashed
  /\ pc = "idle"
  /\ Len(servers) + Len(loops) < MaxCalls
  /\ loops' = Append(loops, [server |-> server, state |-> "running",
                             accepted |-> FALSE, inits |-> inits])
  /\ pc' = "serve"
  /\ UNCHANGED <<Plugins, TLS, DoneCh, config, server, servers, iter, inits,
                 outs, crashed>>

\* Serve returning without the receive from DoneCh.
ServeReturnNoWait ==
  /\ ~crashed
  /\ pc = "serve"
  /\ pc' = "idle"
  /\ UNCHANGED <<Plugins, TLS, DoneCh, config, server, servers, iter, inits,
                 outs, loops, crashed>>

\* Serve waiting for DoneCh or for the end of its accept loop, whichever
\* comes first.
ServeReturnOnLoopEnd ==
  /\ ~crashed
  /\ pc = "serve"
  /\ DoneCh = "closed" \/ loops[Len(loops)].state = "ended"
  /\ pc' = "idle"
  /\ UNCHANGED <<Plugins, TLS, DoneCh, config, server, servers, iter, inits,
                 outs, loops, crashed>>

\* Serve stopping the server before it returns: the accept loop it started
\* ends with it.
ServeReturnStop ==
  /\ ~crashed
  /\ pc = "serve"
  /\ DoneCh = "closed"
  /\ loops' = [loops EXCEPT ![Len(loops)].state = "ended"]
  /\ pc' = "idle"
  /\ UNCHANGED <<Plugins, TLS, DoneCh, config, server, servers, iter, inits,
                 outs, crashed>>

\* "<-s.DoneCh" receives once the channel is closed, and Serve returns.
ServeReturn ==
  /\ ~crashed
  /\ pc = "serve"
  /\ DoneCh = "closed"
  /\ pc' = "idle"
  /\ UNCHANGED <<Plugins, TLS, DoneCh, config, server, servers, iter, inits,
                 outs, loops, crashed>>

\* The external controller closes DoneCh.
CloseDone ==
  /\ ~crashed
  /\ DoneCh = "open"
  /\ DoneCh' = "closed"
  /\ UNCHANGED <<Plugins, TLS, config, server, servers, pc, iter, inits,
                 outs, loops, crashed>>

\* An accept loop accepts a connection on its server; "accepted" notes that
\* it has accepted one.
LoopAccept ==
  /\ ~crashed
  /\ \E i \in 1..Len(loops) :
       /\ loops[i].state = "running"
       /\ loops[i].server # Nil
       /\ loops' = [loops EXCEPT ![i].accepted = TRUE]
  /\ UNCHANGED <<Plugins, TLS, DoneCh, config, server, servers, pc, iter,
                 inits, outs, crashed>>

\* The accept-loop goroutine closing DoneCh when grpc.Server.Serve returns.
LoopEndClosesDone ==
  /\ ~crashed
  /\ \E i \in 1..Len(loops) :
       /\ loops[i].state = "running"
       /\ loops[i].server # Nil
       /\ loops' = [loops EXCEPT ![i].state = "ended"]
  /\ DoneCh' = "closed"
  /\ UNCHANGED <<Plugins, TLS, config, server, servers, pc, iter, inits,
                 outs, crashed>>

\* grpc.Server.Serve returns (the listener failed or was closed); the
\* goroutine ends and its result is dropped.
LoopEnd ==
  /\ ~crashed
  /\ \E i \in 1..Len(loops) :
       /\ loops[i].state = "running"
       /\ loops[i].server # Nil
       /\ loops' = [loops EXCEPT ![i].state = "ended"]
  /\ UNCHANGED <<Plugins, TLS, DoneCh, config, server, servers, pc, iter,
                 inits, outs, crashed>>

\* The goroutine was started with a nil s.server: grpc.Server.Serve
\* dereferences the nil receiver, and the panic of a goroutine ends the
\* process.
LoopPanic ==
  /\ ~crashed
  /\ \E i \in 1..Len(loops) :
       /\ loops[i].state = "running"
       /\ loops[i].server = Nil
  /\ crashed' = TRUE
  /\ UNCHANGED <<Plugins, TLS, DoneCh, config, server, servers, pc, iter,
                 inits, outs, loops>>

----------------------------------------------------------------------------
(* The specification.                                                      *)

EmptyConfig == [StdoutAddr |-> <<>>, StderrAddr |-> <<>>]

Configs == [StdoutAddr : Addrs, StderrAddr : Addrs]

\* What every instance starts with, whatever its exported fields hold.
Constructed ==
  /\ DoneCh = "open"
  /\ server = Nil
  /\ servers = <<>>
  /\ pc = "idle"
  /\ iter = <<>>
  /\ inits = <<>>
  /\ outs = <<>>
  /\ loops = <<>>
  /\ crashed = FALSE

\* The instance as its caller constructs it: the exported fields are set,
\* the unexported config holds its zero value (nothing in the file writes it).
Init ==
  /\ Plugins \in PluginMaps
  /\ TLS \in BOOLEAN
  /\ config = EmptyConfig
  /\ Constructed

\* An instance serving one plugin whose config holds stored addresses: the
\* inputs of Config.
InitStored ==
  /\ Plugins = [k \in {NamePool[1]} |-> "grpc_ok"]
  /\ TLS = FALSE
  /\ config \in Configs
  /\ Constructed

Next ==
  \/ InitCall
  \/ InitRegister
  \/ InitReturn
  \/ ConfigCall
  \/ ServeCall
  \/ ServeReturn
  \/ CloseDone
  \/ LoopAccept
  \/ LoopEnd
  \/ LoopPanic

Spec == Init /\ [][Next]_vars

\* The instances without transport security: Serve reads neither TLS nor
\* the option list.
InitPlain == Init /\ ~TLS

\* The scheduler runs a goroutine that can run: the caller blocked in Serve
\* resumes once DoneCh is closed.
FairSpec == InitPlain /\ [][Next]_vars /\ WF_vars(ServeReturn)

\* The same program started from the inputs of Config.
ConfigSpec == InitStored /\ [][Next]_vars

----------------------------------------------------------------------------
(* Properties of Init.                                                     *)

\* The latest Init call has returned and no later one has begun: s.server is
\* the server that call built.
InitDone == inits # <<>> /\ pc # "init"

\* What the latest finished Init call returned.
InitErr == inits[Len(inits)]

InitOk == InitDone /\ InitErr = NoError

InitFailed == InitDone /\ InitErr # NoError

\* The p.GRPCServer calls made on server id.
Calls(id) == servers[id].calls

\* How many p.GRPCServer calls plugin k has made on server id, and how many
\* of them returned nil.
CallCount(id, k) == Cardinality({i \in 1..Len(Calls(id)) : Calls(id)[i].name = k})

AttachCount(id, k) ==
  Cardinality({i \in 1..Len(Calls(id)) : Calls(id)[i].name = k /\ Calls(id)[i].ok})

\* The plugins attached to server id.
Attached(id) == {k \in DOMAIN Plugins : AttachCount(id, k) > 0}

\* The keys the range loop yielded before its latest one.
IterBefore == {iter[i] : i \in 1..(Len(iter) - 1)}

AllAttachable == \A k \in DOMAIN Plugins : Plugins[k] = "grpc_ok"

SomeNotGRPC == \E k \in DOMAIN Plugins : Plugins[k] = "not_grpc"

\* C1: when every plugin implements GRPCPlugin and its attach call succeeds,
\* Init returns nil and on return s.server is the server the factory
\* returned to this call, with every plugin name attached exactly once and
\* nothing else attached.
C1_InitAttachesAll ==
  (AllAttachable /\ InitDone) =>
     /\ InitErr = NoError
     /\ server = Len(servers)
     /\ \A k \in DOMAIN Plugins : AttachCount(server, k) = 1
     /\ Len(Calls(server)) = Cardinality(DOMAIN Plugins)

C1_Witness ==
  /\ AllAttachable
  /\ InitDone
  /\ Cardinality(DOMAIN Plugins) >= 2
  /\ Len(servers) = 2

\* C2, as claimed: when some plugin lacks the attach capability, Init fails
\* with the error that names a plugin lacking it, and no plugin after that
\* one in iteration order is attached.
C2_Claimed ==
  (SomeNotGRPC /\ InitDone) =>
     /\ InitErr.fmt = NotGRPCError("").fmt
     /\ Plugins[InitErr.args[1]] = "not_grpc"
     /\ Attached(server) \subseteq IterBefore

\* C2, amended: when some plugin lacks the attach capability, Init fails at
\* the first plugin in iteration order that lacks the capability or whose
\* attach fails; the error names that plugin, it is the not-a-GRPC-plugin
\* error exactly when that plugin lacks the capability, and exactly the
\* plugins iterated before it are attached, none after it.
C2_FailsAtFirstOffender ==
  (SomeNotGRPC /\ InitDone) =>
     /\ InitErr # NoError
     /\ iter # <<>>
     /\ InitErr.args[1] = iter[Len(iter)]
     /\ Plugins[iter[Len(iter)]] # "grpc_ok"
     /\ (InitErr.fmt = NotGRPCError("").fmt) <=> (Plugins[iter[Len(iter)]] = "not_grpc")
     /\ \A k \in IterBefore : Plugins[k] = "grpc_ok"
     /\ Attached(server) = IterBefore
     /\ \A k \in DOMAIN Plugins \ IterBefore : CallCount(server, k) =
          (IF k = iter[Len(iter)] /\ Plugins[k] = "grpc_err" THEN 1 ELSE 0)

C2_Witness ==
  /\ InitDone
  /\ InitErr.fmt = NotGRPCError("").fmt
  /\ Remaining # {}

\* C3: when a plugin's attach call has returned an error, Init has returned
\* at once with the error made of that plugin's name and the underlying
\* error; the failed call is the last call on the server and the only call
\* of that plugin, and no plugin later in the iteration has been called.
C3_AttachErrorReturned ==
  \A id \in 1..Len(servers) : \A i \in 1..Len(Calls(id)) :
    ~Calls(id)[i].ok =>
       /\ i = Len(Calls(id))
       /\ CallCount(id, Calls(id)[i].name) = 1
       /\ id = server =>
            /\ InitDone
            /\ InitErr = RegisterError(Calls(id)[i].name,
                                           AttachError(Calls(id)[i].name))
            /\ iter[Len(iter)] = Calls(id)[i].name
            /\ \A k \in Remaining : CallCount(id, k) = 0

C3_Witness ==
  /\ InitDone
  /\ InitErr.fmt = RegisterError("", NoError).fmt
  /\ Remaining # {}

----------------------------------------------------------------------------
(* Properties of Serve.                                                    *)

StartedAfterOk(i) ==
  loops[i].inits # <<>> /\ loops[i].inits[Len(loops[i].inits)] = NoError

StartedAfterFailure(i) ==
  loops[i].inits # <<>> /\ loops[i].inits[Len(loops[i].inits)] # NoError

\* Server id is there and every plugin of Plugins is attached to it, once.
FullyRegistered(id) ==
  /\ id # Nil
  /\ \A k \in DOMAIN Plugins : AttachCount(id, k) = 1

\* C5, as claimed: no accept loop runs on an absent server or on a server
\* some plugin of Plugins is not attached to.
C5_Claimed == \A i \in 1..Len(loops) : FullyRegistered(loops[i].server)

\* C5, amended: an accept loop started by a Serve call made when the latest
\* Init call has returned nil runs on a server that is there and has every
\* plugin of Plugins attached; Serve itself does not check that Init was
\* called or succeeded, so the order is the caller's to keep.
C5_RegisteredBeforeAccept ==
  \A i \in 1..Len(loops) : StartedAfterOk(i) => FullyRegistered(loops[i].server)

C5_Witness ==
  \E i \in 1..Len(loops) :
    /\ StartedAfterOk(i)
    /\ loops[i].accepted
    /\ Cardinality(DOMAIN Plugins) = MaxPlugins

\* C6, as claimed: once Init has returned an error, no operation starts an
\* accept loop.
C6_Claimed == [][InitFailed => loops' = loops]_vars

\* C6, amended: the instance keeps no Failed state.  After Init has returned
\* an error s.server still holds the server of that call, with exactly the
\* plugins iterated before the offending one attached, and a Serve call
\* starts an accept loop on it; no operation but Serve starts an accept loop.
C6_OnlyServeStartsLoop ==
  /\ [][loops' # loops /\ Len(loops') # Len(loops) =>
          /\ pc = "idle" /\ pc' = "serve"
          /\ loops' = Append(loops, loops'[Len(loops')])
          /\ loops'[Len(loops')].server = server]_vars
  /\ [](InitFailed => /\ server = Len(servers)
                      /\ Attached(server) = IterBefore
                      /\ Attached(server) # DOMAIN Plugins)

C6_Witness ==
  \E i \in 1..Len(loops) :
    /\ StartedAfterFailure(i)
    /\ loops[i].accepted
    /\ Attached(loops[i].server) # {}

\* Some Init call has returned nil.
SomeInitOk == \E i \in 1..Len(inits) : inits[i] = NoError

\* C7, as claimed: between calls, s.server is non-nil exactly when an Init
\* call has succeeded; after a failed Init it is still nil.
C7_Claimed == pc # "init" => (server # Nil <=> SomeInitOk)

\* C7, amended: s.server is nil until the first Init call builds the server,
\* and from then on it is non-nil and is the server the latest Init call
\* built: during Init, after a successful Init, and also after an Init call
\* that returned a capability or attach error.
C7_ServerSetByInit ==
  /\ server = Nil <=> servers = <<>>
  /\ server # Nil => server = Len(servers)
  /\ inits # <<>> => server # Nil

C7_Witness == InitFailed /\ ~SomeInitOk /\ server # Nil

----------------------------------------------------------------------------
(* Properties of Config and of the option list.                            *)

\* C8: Config calls made one after the other return the same bytes, and a
\* Config call writes no field of the instance, starts no accept loop and
\* moves no other call, at any moment of the instance's life.
C8_ConfigIdempotent ==
  /\ [](Len(outs) = 2 => outs[1] = outs[2])
  /\ [](outs # <<>> => outs[Len(outs)] = Config(config))
  /\ [][outs' # outs =>
          UNCHANGED <<Plugins, TLS, DoneCh, config, server, servers, pc, iter,
                      inits, loops, crashed>>]_vars

C8_Witness ==
  /\ Len(outs) = 2
  /\ pc = "serve"
  /\ config.StdoutAddr # <<>>
  /\ config.StderrAddr # config.StdoutAddr

\* C10: every option list handed to the factory holds the one credentials
\* option when TLS is set and is empty when it is not, and no Init call
\* fails on account of TLS, set or not: every error Init returns is one of
\* the two plugin errors, about a plugin that cannot be attached.
C10_OptionsFollowTLS ==
  /\ \A id \in 1..Len(servers) :
       servers[id].opts = (IF TLS THEN <<"Creds">> ELSE <<>>)
  /\ \A i \in 1..Len(inits) :
       inits[i] # NoError =>
         /\ inits[i].fmt \in {NotGRPCError("").fmt, RegisterError("", NoError).fmt}
         /\ Plugins[inits[i].args[1]] # "grpc_ok"
  /\ (AllAttachable /\ InitDone) => InitErr = NoError

C10_Witness == TLS /\ InitOk /\ Plugins # << >>

----------------------------------------------------------------------------
(* The reader of the handshake configuration: the decoding of the          *)
(* text-safe payload (base64, standard alphabet, padded) and the parsing   *)
(* of the record it holds.                                                 *)

\* The six-bit value of a base64 character, -1 for a byte outside the
\* alphabet.
B64Value(c) ==
  CASE c >= 65 /\ c <= 90  -> c - 65
    [] c >= 97 /\ c <= 122 -> c - 71
    [] c >= 48 /\ c <= 57  -> c + 4
    [] c = 43 -> 62
    [] c = 47 -> 63
    [] OTHER -> -1

NotNewline(c) == c \notin {10, 13}

\* One group of four characters; '=' pads the last group only.
DecodeQuantum(q, last) ==
  LET v1 == B64Value(q[1])
      v2 == B64Value(q[2])
      v3 == B64Value(q[3])
      v4 == B64Value(q[4])
      b1 == ((v1 * 4) + (v2 \div 16)) % 256
      b2 == (((v2 % 16) * 16) + (v3 \div 4)) % 256
      b3 == (((v3 % 4) * 64) + v4) % 256
  IN  IF v1 < 0 \/ v2 < 0 THEN [ok |-> FALSE, bytes |-> <<>>]
      ELSE IF q[3] = 61
        THEN [ok |-> last /\ q[4] = 61, bytes |-> <<b1>>]
      ELSE IF v3 < 0 THEN [ok |-> FALSE, bytes |-> <<>>]
      ELSE IF q[4] = 61 THEN [ok |-> last, bytes |-> <<b1, b2>>]
      ELSE IF v4 < 0 THEN [ok |-> FALSE, bytes |-> <<>>]
      ELSE [ok |-> TRUE, bytes |-> <<b1, b2, b3>>]

RECURSIVE DecodeQuanta(_)
DecodeQuanta(s) ==
  IF s = <<>> THEN [ok |-> TRUE, bytes |-> <<>>]
  ELSE IF Len(s) < 4 THEN [ok |-> FALSE, bytes |-> <<>>]
  ELSE LET q == DecodeQuantum(SubSeq(s, 1, 4), Len(s) = 4)
           r == DecodeQuanta(SubSeq(s, 5, Len(s)))
       IN  IF q.ok /\ r.ok THEN [ok |-> TRUE, bytes |-> q.bytes \o r.bytes]
           ELSE [ok |-> FALSE, bytes |-> <<>>]

\* The bytes a base64 text stands for; line breaks in the text are skipped,
\* any other byte outside the alphabet makes the text corrupt.
Base64Decode(s) == DecodeQuanta(SelectSeq(s, NotNewline))

\* The value of a hexadecimal digit, -1 for any other byte.
HexValue(c) ==
  CASE c >= 48 /\ c <= 57  -> c - 48
    [] c >= 97 /\ c <= 102 -> c - 87
    [] c >= 65 /\ c <= 70  -> c - 55
    [] OTHER -> -1

\* The UTF-8 bytes of a code point of the basic plane.
UTF8(cp) ==
  IF cp < 128 THEN <<cp>>
  ELSE IF cp < 2048 THEN <<192 + (cp \div 64), 128 + (cp % 64)>>
  ELSE <<224 + (cp \div 4096), 128 + ((cp \div 64) % 64), 128 + (cp % 64)>>

\* The byte a two-character escape stands for, -1 if there is none.
SimpleEscape(c) ==
  CASE c = 34 -> 34
    [] c = 92 -> 92
    [] c = 47 -> 47
    [] c = 98 -> 8
    [] c = 102 -> 12
    [] c = 110 -> 10
    [] c = 114 -> 13
    [] c = 116 -> 9
    [] OTHER -> -1

NoString == [ok |-> FALSE, val |-> <<>>, next |-> 0]

\* The rest of a JSON string literal of s from position i, the bytes read so
\* far being acc: up to the closing quote.
RECURSIVE ScanString(_, _, _)
ScanString(s, i, acc) ==
  IF i > Len(s) THEN NoString
  ELSE IF s[i] = 34 THEN [ok |-> TRUE, val |-> acc, next |-> i + 1]
  ELSE IF s[i] = 92 THEN
    IF i + 1 > Len(s) THEN NoString
    ELSE IF s[i + 1] = 117 THEN
      IF i + 5 > Len(s) \/ \E j \in 2..5 : HexValue(s[i + j]) < 0 THEN NoString
      ELSE ScanString(s, i + 6,
             acc \o UTF8((HexValue(s[i + 2]) * 4096) + (HexValue(s[i + 3]) * 256) +
                         (HexValue(s[i + 4]) * 16) + HexValue(s[i + 5])))
    ELSE IF SimpleEscape(s[i + 1]) < 0 THEN NoString
    ELSE ScanString(s, i + 2, Append(acc, SimpleEscape(s[i + 1])))
  ELSE IF s[i] < 32 THEN NoString
  ELSE IF s[i] = 255 THEN ScanString(s, i + 1, acc \o <<239, 191, 189>>)
  ELSE ScanString(s, i + 1, Append(acc, s[i]))

\* A JSON string literal of s at position i.
ParseString(s, i) ==
  IF i > Len(s) \/ s[i] # 34 THEN NoString ELSE ScanString(s, i + 1, <<>>)

\* stdout_addr
NameStdout == <<115, 116, 100, 111, 117, 116, 95, 97, 100, 100, 114>>

\* stderr_addr
NameStderr == <<115, 116, 100, 101, 114, 114, 95, 97, 100, 100, 114>>

IsSpace(c) == c \in {32, 9, 10, 13}

NoConfig == [ok |-> FALSE, cfg |-> EmptyConfig]

\* The members of an object of s from position i, cfg holding the fields
\* read so far: "name":"value" pairs up to the closing brace, after which
\* only white space may follow.  A name that is no field is skipped.
RECURSIVE ParseMembers(_, _, _)
ParseMembers(s, i, cfg) ==
  LET key == ParseString(s, i)
      val == ParseString(s, key.next + 1)
      got == IF key.val = NameStdout THEN [cfg EXCEPT !.StdoutAddr = val.val]
             ELSE IF key.val = NameStderr THEN [cfg EXCEPT !.StderrAddr = val.val]
             ELSE cfg
  IN  IF ~key.ok \/ key.next > Len(s) \/ s[key.next] # 58 THEN NoConfig
      ELSE IF ~val.ok \/ val.next > Len(s) THEN NoConfig
      ELSE IF s[val.next] = 44 THEN ParseMembers(s, val.next + 1, got)
      ELSE IF s[val.next] = 125 /\ \A j \in (val.next + 1)..Len(s) : IsSpace(s[j])
        THEN [ok |-> TRUE, cfg |-> got]
      ELSE NoConfig

\* The GRPCServerConfig a JSON text holds.
ParseConfig(s) ==
  IF s = <<>> \/ s[1] # 123 THEN NoConfig
  ELSE IF Len(s) >= 2 /\ s[2] = 125 /\ \A j \in 3..Len(s) : IsSpace(s[j])
    THEN [ok |-> TRUE, cfg |-> EmptyConfig]
  ELSE ParseMembers(s, 2, EmptyConfig)

\* What the reader gets out of a payload: the record under the text-safe
\* encoding.
ReadPayload(out) ==
  LET d == Base64Decode(out)
  IN  IF d.ok THEN ParseConfig(d.bytes) ELSE NoConfig

\* C9: decoding the text-safe payload that Config returned and parsing the
\* record gives back the StdoutAddr and StderrAddr of s.config.
C9_RoundTrip ==
  \A i \in 1..Len(outs) : ReadPayload(outs[i]) = [ok |-> TRUE, cfg |-> config]

----------------------------------------------------------------------------
(* Properties of the server handle and of the accept loops over any        *)
(* sequence of calls.                                                      *)

\* The Init calls made so far: those that have returned and the one running.
InitCalls == Len(inits) + (IF pc = "init" THEN 1 ELSE 0)

\* C11, as claimed: the factory is invoked once on an instance and the
\* handle, once set, is never replaced by another server.
C11_Claimed ==
  /\ [](Len(servers) <= 1)
  /\ [][server # Nil => server' = server]_vars

\* C11, amended: the server handle is created only during Init.  Every Init
\* call invokes the factory exactly once and sets the handle to the server
\* it returned, so a second Init call replaces the handle by a new server
\* (nothing keeps Init from being called twice); no Config or Serve call and
\* no later step of Init creates a server or changes the handle.
C11_HandleSetByEachInit ==
  /\ [](Len(servers) = InitCalls)
  /\ [][server' # server \/ Len(servers') # Len(servers) =>
          /\ pc = "idle" /\ pc' = "init"
          /\ Len(servers') = Len(servers) + 1
          /\ server' = Len(servers')]_vars

C11_Witness ==
  /\ Len(servers) = 2
  /\ server = 2
  /\ pc = "serve"
  /\ outs # <<>>

\* C12, as claimed: at most one accept loop is ever started on an instance.
C12_Claimed == Len(loops) <= 1

\* C12, amended: every Serve call starts exactly one accept-loop goroutine
\* and no other operation starts any, so there are as many accept loops as
\* Serve calls: at most one only when Serve is called at most once, which
\* nothing in Serve enforces.
C12_OneLoopPerServe ==
  /\ [][pc # "serve" /\ pc' = "serve" => Len(loops') = Len(loops) + 1]_vars
  /\ [][Len(loops') # Len(loops) => pc = "idle" /\ pc' = "serve"]_vars
  /\ [](pc = "serve" => loops # <<>>)

C12_Witness ==
  /\ Len(loops) = 2
  /\ loops[1].state = "running"
  /\ loops[2].state = "running"
  /\ loops[1].server # Nil
  /\ loops[1].server = loops[2].server

\* C13: Serve stops nothing when it returns.  The step in which Serve
\* returns leaves every accept loop as it was, a loop goes from running to
\* ended only in a step of its own, never in a step of the caller, and a
\* running loop on a server can accept a connection in every state in which
\* the process is alive, after Serve has returned as before.
C13_ReturnLeavesLoopRunning ==
  /\ [][pc = "serve" /\ pc' # "serve" => loops' = loops]_vars
  /\ [][\A i \in 1..Len(loops) :
          loops[i].state = "running" /\ loops'[i].state # "running" =>
            pc' = pc /\ DoneCh' = DoneCh]_vars
  /\ [](\A i \in 1..Len(loops) :
          loops[i].state = "running" /\ loops[i].server # Nil /\ ~crashed =>
            ENABLED LoopAccept)

\* Serve has returned and the loop it started is still running and has yet
\* to accept its first connection.
C13_Witness ==
  /\ pc = "idle"
  /\ DoneCh = "closed"
  /\ Len(loops) = 1
  /\ loops[1].state = "running"
  /\ loops[1].server # Nil
  /\ ~loops[1].accepted
  /\ InitOk

\* Some accept loop has ended.
SomeLoopEnded == \E i \in 1..Len(loops) : loops[i].state = "ended"

\* C14: when an accept loop has ended while DoneCh is open, the Serve call
\* that waits stays where it is: it cannot return in that state, and it is
\* still waiting after every step that leaves DoneCh open.  The step in
\* which a loop ends changes nothing but that loop: nothing is reported to
\* the caller.
C14_LoopEndUnnoticed ==
  /\ [](pc = "serve" /\ DoneCh = "open" /\ SomeLoopEnded => ~ENABLED ServeReturn)
  /\ [][pc = "serve" /\ DoneCh = "open" /\ SomeLoopEnded => pc' = "serve"]_vars
  /\ [][(\E i \in 1..Len(loops) :
            loops[i].state = "running" /\ loops'[i].state = "ended") =>
          UNCHANGED <<Plugins, TLS, DoneCh, config, server, servers, pc, iter,
                      inits, outs, crashed>>]_vars

\* The loop of the Serve call that waits has ended, DoneCh is open.
C14_Witness ==
  /\ pc = "serve"
  /\ DoneCh = "open"
  /\ loops[Len(loops)].state = "ended"
  /\ ~loops[Len(loops)].accepted

\* C15: DoneCh changes only from open to closed, and only in a step of the
\* external controller, a step that changes nothing of the bootstrap: no
\* step of Init, Config, Serve or an accept loop closes the channel.
C15_OnlyControllerCloses ==
  [][DoneCh' # DoneCh =>
       /\ DoneCh = "open" /\ DoneCh' = "closed"
       /\ UNCHANGED <<Plugins, TLS, config, server, servers, pc, iter, inits,
                      outs, loops, crashed>>]_vars

\* DoneCh is closed after Init, Config and Serve have all run and an accept
\* loop has ended.
C15_Witness ==
  /\ DoneCh = "closed"
  /\ inits # <<>>
  /\ outs # <<>>
  /\ pc = "idle"
  /\ SomeLoopEnded

\* C16: no step writes s.config or s.Plugins, and with no address stored
\* every payload Config returns, in whatever state it is called, is read
\* back as the record with empty stdout_addr and stderr_addr.
C16_Claimed ==
  /\ [][config' = config /\ Plugins' = Plugins]_vars
  /\ [](config = EmptyConfig)
  /\ [](\A i \in 1..Len(outs) :
          ReadPayload(outs[i]) = [ok |-> TRUE, cfg |-> EmptyConfig])

\* C17: when Init has failed, the plugins attached to its server are exactly
\* those iterated before the offending one, each attached once.  What has
\* been called on a server is never undone: the calls on every server only
\* grow, by one call at the end, and only on the server of an Init call that
\* is running, so after Init has returned it attaches and detaches nothing.
C17_NoRollback ==
  /\ [](InitFailed =>
          /\ Attached(server) = IterBefore
          /\ \A k \in IterBefore : AttachCount(server, k) = 1
          /\ \A k \in Remaining : CallCount(server, k) = 0)
  /\ [][\A id \in 1..Len(servers) :
          /\ Len(servers') >= id
          /\ servers'[id].opts = servers[id].opts
          /\ Len(Calls(id)) <= Len(servers'[id].calls)
          /\ SubSeq(servers'[id].calls, 1, Len(Calls(id))) = Calls(id)
          /\ servers'[id] # servers[id] =>
               /\ pc = "init" /\ id = server
               /\ Len(servers'[id].calls) = Len(Calls(id)) + 1]_vars

\* Init has failed with a plugin attached before the offending one, and a
\* Serve call has been made since.
C17_Witness ==
  /\ InitFailed
  /\ IterBefore # {}
  /\ Attached(server) = IterBefore
  /\ loops # <<>>
  /\ loops[Len(loops)].server = server

====
